---- MODULE Spec2Model ----
(***************************************************************************)
(* Model of clarinet's dependency resolver (types/project_config.rs) and   *)
(* of the deploy command (frontend/cli.rs) that consumes its order through *)
(* console::load_session.                                                  *)
(*                                                                         *)
(* Contract ids are 0-based as in the source; adjacency_list is a TLA+     *)
(* sequence, so the list of node i is adjacency_list[i + 1].               *)
(***************************************************************************)
EXTENDS Integers, Sequences, FiniteSets, TLC

VARIABLES
    contracts,        \* MainConfig.contracts: BTreeMap name -> ContractConfig.depends_on
    run,              \* number of the process run (one command per run)
    accounts,         \* ChainConfig.accounts: name -> is its mnemonic well formed
    pc,               \* position of the running command
    outcome,          \* how the process ended ("running" while it has not)
    panic_msg,        \* payload of the panic that ended the process, if any
    adjacency_list,   \* Graph.adjacency_list
    seen,             \* GraphWalker.seen
    expr_index,       \* loop variable of get_sorted_dependencies
    stack,            \* call stack of sort_dependencies_recursion
    sorted_indexes,   \* the `branch` vector / result of get_sorted_dependencies
    last_sorted,      \* what get_sorted_dependencies returned in the previous run
    last_report,      \* names of the cycle report the previous run printed, if any
    links,            \* MainConfig.links as Clarinet.toml holds them (contract ids)
    last_edit,        \* what the last EditTOML change was given, found and did
    tainted,          \* `tainted` of get_cycling_dependencies when it returned
    initial_contracts,\* settings.initial_contracts (names, in deployment order)
    deployers_lookup, \* cli.rs deployers_lookup
    deployers_nonces, \* cli.rs deployers_nonces
    idx,              \* position of the deploy loop in initial_contracts
    deployer,         \* signer resolved for the current contract
    nonce,            \* nonce resolved for the current contract
    steps,            \* pipeline steps taken so far in this run, in order
    net,              \* requests sent to the node in this run, in order
    stdout            \* lines printed in this run, in order

hvars == <<last_report, links, last_edit>>
gvars == <<adjacency_list, seen, expr_index, stack, sorted_indexes, tainted>>
dvars == <<initial_contracts, deployers_lookup, deployers_nonces, idx, deployer,
           nonce, steps, net>>
vars == <<contracts, run, accounts, pc, outcome, panic_msg, gvars,
          last_sorted, hvars, dvars, stdout>>

----------------------------------------------------------------------------
(* Bounds of the model *)

MaxContracts == 3
MaxEdges == 3
MaxRuns == 2
MaxLinks == 3
MaxLinksToAdd == 2

(* Contract names, in the order String's Ord gives them (BTreeMap order). *)
NameSeq == <<"a", "b", "c", "d", "e">>
Names == {NameSeq[i] : i \in 1..MaxContracts}
NameRank(n) == CHOOSE i \in 1..Len(NameSeq) : NameSeq[i] = n

NoName == "-"
NoNonce == -1
NotYet == <<-1>>
NoReport == <<NoName>>
NoPanic == [at |-> "", names |-> <<>>]
NoEdit == [ran |-> FALSE, links_to_add |-> <<>>, links_before |-> <<>>, dirty |-> FALSE]

(* Contract ids a link may name *)
LinkIds == {"SP1.ft", "SP2.nft"}

(* Nonces the node may report for an account *)
NetNonces == {0, 5}

(* Chain configurations: with or without an account named "deployer", its  *)
(* mnemonic well formed or not.                                            *)
ChainConfigs ==
    { ("wallet_1" :> TRUE),
      ("deployer" :> TRUE) @@ ("wallet_1" :> TRUE),
      ("deployer" :> FALSE) @@ ("wallet_1" :> TRUE) }

----------------------------------------------------------------------------
(* Input space: every roster over Names whose depends_on lists hold at     *)
(* most MaxEdges names in total.  A dependency may name a contract that    *)
(* is not a key of the roster, may repeat, and may name its own contract.  *)

RECURSIVE SeqsOfLen(_, _)
SeqsOfLen(S, n) ==
    IF n = 0 THEN {<<>>}
    ELSE {Append(s, x) : s \in SeqsOfLen(S, n - 1), x \in S}

SeqsUpTo(S, n) == UNION {SeqsOfLen(S, k) : k \in 0..n}

EmptyMap == [x \in {} |-> <<>>]

(* The roster whose keys are `keys` and whose depends_on lists hold the     *)
(* entries of `edges` (pairs <<contract, dependency>>) in their order      *)
RosterOf(keys, edges) ==
    [k \in keys |->
        LET mine == SelectSeq(edges, LAMBDA e : e[1] = k)
        IN [j \in 1..Len(mine) |-> mine[j][2]]]

Perms(S) == {p \in SeqsOfLen(S, Cardinality(S)) : {p[i] : i \in 1..Len(p)} = S}

Range(s) == {s[i] : i \in 1..Len(s)}

----------------------------------------------------------------------------
(* MainConfig::ordered_contracts, lines 71-81: ids in BTreeMap order *)

lookup(cs, name) ==
    Cardinality({k \in DOMAIN cs : NameRank(k) < NameRank(name)})

reverse_lookup(cs, index) ==
    CHOOSE k \in DOMAIN cs : lookup(cs, k) = index

(* The (contract, dependency) pairs for which lookup.get(deps) is None *)
UnknownDeps(cs) ==
    UNION {{<<c, cs[c][j]>> : j \in {i \in 1..Len(cs[c]) : cs[c][i] \notin DOMAIN cs}}
           : c \in DOMAIN cs}

(* add_directed_edge with its arguments swapped: edges from the           *)
(* dependency to its dependents                                            *)
BuildGraph_swapped(cs) ==
    [i \in 1..Cardinality(DOMAIN cs) |->
        LET dependents == {k \in DOMAIN cs :
                             \E j \in 1..Len(cs[k]) : lookup(cs, cs[k][j]) = i - 1}
            RECURSIVE AsSeq(_)
            AsSeq(S) == IF S = {} THEN <<>>
                        ELSE LET k == CHOOSE x \in S : \A y \in S : NameRank(x) <= NameRank(y)
                             IN <<lookup(cs, k)>> \o AsSeq(S \ {k})
        IN AsSeq(dependents)]

(* Graph::add_node / add_directed_edge over the whole roster, lines 83-91 *)
BuildGraph(cs) ==
    [i \in 1..Cardinality(DOMAIN cs) |->
        LET deps == cs[reverse_lookup(cs, i - 1)]
        IN [j \in 1..Len(deps) |-> lookup(cs, deps[j])]]

(* Graph accessors *)
nodes_count(g) == Len(g)
get_node_descendants(g, i) == g[i + 1]
has_node_descendants(g, i) == Len(g[i + 1]) > 0

----------------------------------------------------------------------------
(* GraphWalker *)

GraphWalker_new == {}

Reverse(s) == [i \in 1..Len(s) |-> s[Len(s) + 1 - i]]

(* the neighbors kept in a hashed collection: their iteration order        *)
(* changes from one process to the next                                    *)
neighbors_hashed(g, n) == IF run % 2 = 0 THEN Reverse(g[n + 1]) ELSE g[n + 1]

(* line 257: the adjacency list of a node, in insertion order *)
neighbors(g, n) == g[n + 1]

(* line 276 without `|| tainted.contains(descendant)` *)
RECURSIVE TaintDescendants_leaves(_, _, _, _)
TaintDescendants_leaves(g, descendants, t, count) ==
    IF descendants = <<>> THEN [tainted |-> t, count |-> count]
    ELSE LET d == Head(descendants)
         IN IF ~has_node_descendants(g, d)
            THEN TaintDescendants_leaves(g, Tail(descendants), t \cup {d}, count + 1)
            ELSE TaintDescendants_leaves(g, Tail(descendants), t, count)

(* get_cycling_dependencies, lines 270-284: one traversal of sorted_indexes *)
RECURSIVE TaintDescendants(_, _, _, _)
TaintDescendants(g, descendants, t, count) ==
    IF descendants = <<>> THEN [tainted |-> t, count |-> count]
    ELSE LET d == Head(descendants)
         IN IF ~has_node_descendants(g, d) \/ d \in t
            THEN TaintDescendants(g, Tail(descendants), t \cup {d}, count + 1)
            ELSE TaintDescendants(g, Tail(descendants), t, count)

(* line 281 with `>= 1` in place of the comparison with descendants.len() *)
TaintNode_any(g, node, t) ==
    LET descendants == get_node_descendants(g, node)
        r == TaintDescendants(g, descendants, t, 0)
    IN IF r.count >= 1 \/ Len(descendants) = 0 THEN r.tainted \cup {node} ELSE r.tainted

TaintNode(g, node, t) ==
    LET descendants == get_node_descendants(g, node)
        r == TaintDescendants(g, descendants, t, 0)
    IN IF r.count = Len(descendants) THEN r.tainted \cup {node} ELSE r.tainted

(* the traversal going through sorted_indexes from its end *)
RECURSIVE TaintPass_backwards(_, _, _)
TaintPass_backwards(g, order, t) ==
    IF order = <<>> THEN t
    ELSE TaintPass_backwards(g, SubSeq(order, 1, Len(order) - 1),
                             TaintNode(g, order[Len(order)], t))

RECURSIVE TaintPass(_, _, _)
TaintPass(g, order, t) ==
    IF order = <<>> THEN t
    ELSE TaintPass(g, Tail(order), TaintNode(g, Head(order), t))

(* the check always answering None *)
get_cycling_dependencies_none(g, order) == [some |-> FALSE, deps |-> {}]

(* lines 286-292: None, or Some of the untainted nodes (as a set: the Vec  *)
(* is collected from a HashSet difference, so its order is not fixed)      *)
get_cycling_dependencies(g, order) ==
    LET t == TaintPass(g, order, {})
    IN IF Cardinality(t) = Len(order)
       THEN [some |-> FALSE, deps |-> {}]
       ELSE [some |-> TRUE, deps |-> Range(order) \ t]

----------------------------------------------------------------------------
TypeOK ==
    /\ DOMAIN contracts \subseteq Names
    /\ run \in 1..MaxRuns
    /\ pc \in {"start", "sort", "cycle", "session", "loaded",
               "signer", "derive", "nonce", "submit", "done"}

Init ==
    /\ \E keys \in SUBSET Names, n \in 0..MaxEdges :
         \E edges \in [1..n -> keys \X Names] :
            contracts = RosterOf(keys, edges)
    /\ run = 1
    /\ accounts = EmptyMap
    /\ pc = "start"
    /\ outcome = "running"
    /\ panic_msg = NoPanic
    /\ adjacency_list = <<>>
    /\ seen = {}
    /\ expr_index = 0
    /\ stack = <<>>
    /\ sorted_indexes = <<>>
    /\ last_sorted = NotYet
    /\ last_report = NoReport
    /\ links = <<>>
    /\ last_edit = NoEdit
    /\ tainted = {}
    /\ initial_contracts = <<>>
    /\ deployers_lookup = EmptyMap
    /\ deployers_nonces = EmptyMap
    /\ idx = 0
    /\ deployer = NoName
    /\ nonce = NoNonce
    /\ steps = <<>>
    /\ net = <<>>
    /\ stdout = <<>>

----------------------------------------------------------------------------
(* One process run.  A run ends in pc = "done" with an outcome:            *)
(*   "ok"     the command returned                                         *)
(*   "error"  load_session returned Err and the command printed it         *)
(*   "exit"   process::exit after the cycle report                         *)
(*   "panic"  an unwrap / expect / panic! fired (panic_msg says where)     *)

Line(kind, names, n) == [kind |-> kind, names |-> names, nonce |-> n]
Request(op, who, contract, n, status) ==
    [op |-> op, who |-> who, contract |-> contract, nonce |-> n, status |-> status]
Step(what, contract) == [what |-> what, contract |-> contract]

Panic(at) ==
    /\ pc' = "done"
    /\ outcome' = "panic"
    /\ panic_msg' = [at |-> at, names |-> <<>>]

Finish(how) ==
    /\ pc' = "done"
    /\ outcome' = how
    /\ UNCHANGED panic_msg

(* cli.rs main, lines 223-232: the deploy command calls load_session,      *)
(* which reads Clarinet.toml (mod.rs line 25) and calls ordered_contracts. *)
(* ordered_contracts, lines 66-93: ids, graph, a new walker.               *)
(* lookup.get(deps).unwrap() panics on the first unknown dependency.       *)
OrderedContractsBuild ==
    /\ pc = "start"
    /\ IF UnknownDeps(contracts) # {}
       THEN /\ Panic("project_config.rs:88")
            /\ UNCHANGED gvars
       ELSE /\ adjacency_list' = BuildGraph(contracts)
            /\ seen' = GraphWalker_new
            /\ expr_index' = 0
            /\ stack' = <<>>
            /\ sorted_indexes' = <<>>
            /\ pc' = "sort"
            /\ UNCHANGED <<outcome, panic_msg, tainted>>
    /\ UNCHANGED <<contracts, run, accounts, last_sorted, hvars, dvars, stdout>>

(* line 256 skipped for the calls get_sorted_dependencies makes itself:    *)
(* their node is not marked as seen                                        *)
Call_unmarked(n, callers) ==
    IF n \in seen
    THEN /\ stack' = callers
         /\ UNCHANGED seen
    ELSE /\ stack' = Append(callers, [node |-> n, pos |-> 1])
         /\ seen' = IF callers = <<>> THEN seen ELSE seen \cup {n}

(* sort_dependencies_recursion called on node n, lines 252-256, the       *)
(* calls that have not returned being `callers`                            *)
Call(n, callers) ==
    IF n \in seen
    THEN /\ stack' = callers
         /\ UNCHANGED seen
    ELSE /\ seen' = seen \cup {n}
         /\ stack' = Append(callers, [node |-> n, pos |-> 1])

Top == stack[Len(stack)]

(* get_sorted_dependencies, lines 239-241: the next top-level call *)
SortNext ==
    /\ pc = "sort"
    /\ stack = <<>>
    /\ expr_index < nodes_count(adjacency_list)
    /\ Call(expr_index, stack)
    /\ expr_index' = expr_index + 1
    /\ UNCHANGED <<contracts, run, accounts, pc, outcome, panic_msg,
                   adjacency_list, sorted_indexes, tainted, last_sorted, hvars, dvars, stdout>>

(* lines 257-261: the running call recurses into its next neighbor *)
SortVisit ==
    /\ pc = "sort"
    /\ stack # <<>>
    /\ Top.pos <= Len(neighbors(adjacency_list, Top.node))
    /\ LET neighbor == neighbors(adjacency_list, Top.node)[Top.pos]
           advanced == [stack EXCEPT ![Len(stack)].pos = @ + 1]
       IN Call(neighbor, advanced)
    /\ UNCHANGED <<contracts, run, accounts, pc, outcome, panic_msg,
                   adjacency_list, expr_index, sorted_indexes, tainted, last_sorted, hvars,
                   dvars, stdout>>

(* line 262: the running call has visited its neighbors, emits and returns *)
SortEmit ==
    /\ pc = "sort"
    /\ stack # <<>>
    /\ Top.pos > Len(neighbors(adjacency_list, Top.node))
    /\ sorted_indexes' = Append(sorted_indexes, Top.node)
    /\ stack' = SubSeq(stack, 1, Len(stack) - 1)
    /\ UNCHANGED <<contracts, run, accounts, pc, outcome, panic_msg,
                   adjacency_list, seen, expr_index, tainted, last_sorted, hvars, dvars, stdout>>

(* line 243: get_sorted_dependencies returns *)
SortReturn ==
    /\ pc = "sort"
    /\ stack = <<>>
    /\ expr_index = nodes_count(adjacency_list)
    /\ pc' = "cycle"
    /\ UNCHANGED <<contracts, run, accounts, outcome, panic_msg, gvars,
                   last_sorted, hvars, dvars, stdout>>

(* the list filled from the end of sorted_indexes *)
dst_reversed(cs, order) ==
    [i \in 1..Len(order) |-> reverse_lookup(cs, order[Len(order) + 1 - i])]

(* ordered_contracts, lines 110-118: dst, the names of sorted_indexes in   *)
(* the order of sorted_indexes                                             *)
dst(cs, order) == [i \in 1..Len(order) |-> reverse_lookup(cs, order[i])]

(* ordered_contracts, lines 96-119: the cycle check, then either the       *)
(* report and process::exit(0), or the ordered (name, config) list, which  *)
(* load_session (mod.rs 48-66) turns into settings.initial_contracts       *)
OrderedContractsReturn ==
    /\ pc = "cycle"
    /\ LET cyclic_deps == get_cycling_dependencies(adjacency_list, sorted_indexes)
       IN /\ tainted' = TaintPass(adjacency_list, sorted_indexes, {})
          /\ IF cyclic_deps.some
             THEN /\ \E deps \in Perms(cyclic_deps.deps) :
                       stdout' = Append(stdout,
                           Line("cycling dependencies",
                                [i \in 1..Len(deps) |-> reverse_lookup(contracts, deps[i])],
                                NoNonce))
                  /\ Finish("exit")
                  /\ UNCHANGED initial_contracts
             ELSE /\ initial_contracts' = dst(contracts, sorted_indexes)
                  /\ pc' = "session"
                  /\ UNCHANGED <<outcome, panic_msg, stdout>>
    /\ last_sorted' = sorted_indexes
    /\ UNCHANGED <<contracts, run, accounts, hvars, adjacency_list, seen, expr_index,
                   stack, sorted_indexes, deployers_lookup, deployers_nonces, idx,
                   deployer, nonce, steps, net>>

(* load_session, mod.rs lines 26-93: the accounts of the chain settings    *)
(* (they are read at line 26 and first used by the caller, so the model    *)
(* draws them here).  Reading a contract's file or session.check() may     *)
(* fail, and then load_session returns Err, which the command prints       *)
(* before it returns (cli.rs 233-236).                                     *)
LoadSessionReturn ==
    /\ pc = "session"
    /\ \E ok \in BOOLEAN, chain \in ChainConfigs :
        IF ok
        THEN /\ accounts' = chain
             /\ pc' = "loaded"
             /\ UNCHANGED <<outcome, panic_msg, stdout>>
        ELSE /\ stdout' = Append(stdout, Line("load_session error", <<>>, NoNonce))
             /\ Finish("error")
             /\ UNCHANGED accounts
    /\ UNCHANGED <<contracts, run, gvars, last_sorted, hvars, dvars>>

(* head of the loop of cli.rs line 255 at position i *)
LoopHead(i) ==
    IF i <= Len(initial_contracts)
    THEN /\ pc' = "signer"
         /\ UNCHANGED <<outcome, panic_msg>>
    ELSE Finish("ok")

(* the fallback taken from whichever account comes first *)
signer_table_first(accts) == ("*" :> CHOOSE a \in DOMAIN accts : TRUE)

(* cli.rs lines 240-245: the signer table holds the account named         *)
(* "deployer" under the key "*", and nothing else                          *)
signer_table(accts) ==
    IF "deployer" \in DOMAIN accts THEN ("*" :> "deployer") ELSE EmptyMap

(* cli.rs lines 237-245: the nonce cache and the signer table *)
DeployBegin ==
    /\ pc = "loaded"
    /\ deployers_nonces' = EmptyMap
    /\ deployers_lookup' = signer_table(accounts)
    /\ idx' = 1
    /\ LoopHead(1)
    /\ UNCHANGED <<contracts, run, accounts, gvars, last_sorted, hvars,
                   initial_contracts, deployer, nonce, steps, net, stdout>>

contract_name == initial_contracts[idx]

(* the nonce resolved before the key is derived *)
pipeline_next_nonce_first(stage) ==
    CASE stage = "signer" -> "nonce"
      [] stage = "nonce" -> "derive"
      [] stage = "derive" -> "submit"

(* the statements of the loop body in the order of the text: signer (264), *)
(* key derivation (269), nonce (283), build, sign and send (304)           *)
pipeline_next(stage) ==
    CASE stage = "signer" -> "derive"
      [] stage = "derive" -> "nonce"
      [] stage = "nonce" -> "submit"

(* cli.rs lines 264-267 *)
ResolveSigner ==
    /\ pc = "signer"
    /\ steps' = Append(steps, Step("signer", contract_name))
    /\ IF contract_name \in DOMAIN deployers_lookup
       THEN /\ deployer' = deployers_lookup[contract_name]
            /\ pc' = pipeline_next("signer")
            /\ UNCHANGED <<outcome, panic_msg>>
       ELSE IF "*" \in DOMAIN deployers_lookup
       THEN /\ deployer' = deployers_lookup["*"]
            /\ pc' = pipeline_next("signer")
            /\ UNCHANGED <<outcome, panic_msg>>
       ELSE /\ Panic("cli.rs:266")
            /\ UNCHANGED deployer
    /\ UNCHANGED <<contracts, run, accounts, gvars, last_sorted, hvars,
                   initial_contracts, deployers_lookup, deployers_nonces, idx, nonce,
                   net, stdout>>

(* cli.rs lines 269-278: seed from the mnemonic, key along the derivation path *)
DeriveKey ==
    /\ pc = "derive"
    /\ steps' = Append(steps, Step("derive", contract_name))
    /\ IF accounts[deployer]
       THEN /\ pc' = pipeline_next("derive")
            /\ UNCHANGED <<outcome, panic_msg>>
       ELSE Panic("cli.rs:271")
    /\ UNCHANGED <<contracts, run, accounts, gvars, last_sorted, hvars,
                   initial_contracts, deployers_lookup, deployers_nonces, idx, deployer,
                   nonce, net, stdout>>

(* the cache never consulted *)
nonce_cached_never(cache, account) == FALSE

(* cli.rs line 283: deployers_nonces.get(&deployer.name) is Some *)
nonce_cached(cache, account) == account \in DOMAIN cache

(* cli.rs lines 283-302: the cached nonce, or the node's answer *)
ResolveNonce ==
    /\ pc = "nonce"
    /\ steps' = Append(steps, Step("nonce", contract_name))
    /\ IF nonce_cached(deployers_nonces, deployer)
       THEN /\ nonce' = deployers_nonces[deployer]
            /\ pc' = pipeline_next("nonce")
            /\ UNCHANGED <<deployers_nonces, net, outcome, panic_msg>>
       ELSE \E response \in NetNonces \cup {NoNonce} :
               IF response = NoNonce
               THEN /\ net' = Append(net, Request("GET /v2/accounts", deployer,
                                                  contract_name, NoNonce, "failed"))
                    /\ Panic("cli.rs:295")
                    /\ UNCHANGED <<nonce, deployers_nonces>>
               ELSE /\ net' = Append(net, Request("GET /v2/accounts", deployer,
                                                  contract_name, response, "2xx"))
                    /\ nonce' = response
                    /\ deployers_nonces' = (deployer :> response) @@ deployers_nonces
                    /\ pc' = pipeline_next("nonce")
                    /\ UNCHANGED <<outcome, panic_msg>>
    /\ UNCHANGED <<contracts, run, accounts, gvars, last_sorted, hvars,
                   initial_contracts, deployers_lookup, idx, deployer, stdout>>

(* the cached nonce left as it was *)
next_nonce_same(n) == n

(* cli.rs line 354: the nonce cached after a successful broadcast *)
next_nonce(n) == n + 1

(* a failed broadcast skipped, the loop going on with the next contract *)
BroadcastFailed_continue(at) ==
    /\ idx' = idx + 1
    /\ LoopHead(idx + 1)
    /\ UNCHANGED deployers_nonces

(* cli.rs lines 345-351: send().unwrap(), panic!() on a status that is not *)
(* a success, res.json().unwrap()                                          *)
BroadcastFailed(at) ==
    /\ Panic(at)
    /\ UNCHANGED <<deployers_nonces, idx>>

(* cli.rs lines 304-354: build, sign, broadcast, record *)
Submit ==
    /\ pc = "submit"
    /\ steps' = Append(steps, Step("submit", contract_name))
    /\ \E status \in {"2xx", "non2xx", "transport", "not json"} :
        /\ net' = Append(net, Request("POST /v2/transactions", deployer,
                                      contract_name, nonce, status))
        /\ IF status = "2xx"
           THEN /\ stdout' = Append(stdout, Line("Deploying", <<contract_name>>, nonce))
                /\ deployers_nonces' = (deployer :> next_nonce(nonce)) @@ deployers_nonces
                /\ idx' = idx + 1
                /\ LoopHead(idx + 1)
           ELSE IF status = "non2xx"
           THEN /\ stdout' = Append(stdout, Line("response body", <<>>, NoNonce))
                /\ BroadcastFailed("cli.rs:349")
           ELSE /\ BroadcastFailed(IF status = "transport" THEN "cli.rs:345" ELSE "cli.rs:351")
                /\ UNCHANGED stdout
    /\ UNCHANGED <<contracts, run, accounts, gvars, last_sorted, hvars,
                   initial_contracts, deployers_lookup, deployer, nonce>>

(* A new process: nothing of the ended one is left *)
NewProcess ==
    /\ run' = run + 1
    /\ accounts' = EmptyMap
    /\ pc' = "start"
    /\ outcome' = "running"
    /\ panic_msg' = NoPanic
    /\ adjacency_list' = <<>>
    /\ seen' = {}
    /\ expr_index' = 0
    /\ stack' = <<>>
    /\ sorted_indexes' = <<>>
    /\ tainted' = {}
    /\ initial_contracts' = <<>>
    /\ deployers_lookup' = EmptyMap
    /\ deployers_nonces' = EmptyMap
    /\ idx' = 0
    /\ deployer' = NoName
    /\ nonce' = NoNonce
    /\ steps' = <<>>
    /\ net' = <<>>
    /\ stdout' = <<>>

(* The process has ended; the next command starts a new one.  Nothing but  *)
(* the project's files survives.                                           *)
NewRun ==
    /\ pc = "done"
    /\ run < MaxRuns
    /\ NewProcess
    /\ UNCHANGED <<contracts, last_sorted, hvars>>

(* The same step after a cycle report, the names the ended process printed *)
(* kept aside for comparison with what the next one prints                 *)
NewRunAfterReport ==
    /\ pc = "done"
    /\ outcome = "exit"
    /\ run < MaxRuns
    /\ NewProcess
    /\ last_report' = stdout[Len(stdout)].names
    /\ UNCHANGED <<contracts, last_sorted, links, last_edit>>

Next ==
    \/ OrderedContractsBuild
    \/ SortNext
    \/ SortVisit
    \/ SortEmit
    \/ SortReturn
    \/ OrderedContractsReturn
    \/ LoadSessionReturn
    \/ DeployBegin
    \/ ResolveSigner
    \/ DeriveKey
    \/ ResolveNonce
    \/ Submit

(* One run of the deploy command *)
Spec == Init /\ [][Next]_vars

(* The resolver alone: ordered_contracts up to the return of               *)
(* get_sorted_dependencies.  The pass is straight sequential code, so it   *)
(* takes its next step whenever it has one.                                *)
SortStep == SortNext \/ SortVisit \/ SortEmit \/ SortReturn

ResolverNext == OrderedContractsBuild \/ SortStep

ResolverSpec == Init /\ [][ResolverNext]_vars /\ WF_vars(SortStep)

(* Runs of load_session, one process after another on the same            *)
(* Clarinet.toml, each as far as the return of load_session                *)
RerunNext == ResolverNext \/ OrderedContractsReturn \/ LoadSessionReturn \/ NewRun

RerunSpec == Init /\ [][RerunNext]_vars

(* The same runs, each as far as the return of ordered_contracts and with  *)
(* the cycle report of the ended run kept                                  *)
ReportNext == ResolverNext \/ OrderedContractsReturn \/ NewRunAfterReport

ReportSpec == Init /\ [][ReportNext]_vars

----------------------------------------------------------------------------
(* The commands that edit Clarinet.toml.  Each builds a TOMLEdition and    *)
(* hands it to execute_changes as a Changes::EditTOML.                     *)

(* Vec::contains on the links read from the file *)
links_contains(ls, link) == \E i \in 1..Len(ls) : ls[i] = link

(* cli.rs lines 390-400: the loop over options.links_to_add, from the      *)
(* links read from the file and the value of dirty so far                  *)
RECURSIVE add_links(_, _, _)
add_links(ls, links_to_add, dirty) ==
    IF links_to_add = <<>> THEN [links |-> ls, dirty |-> dirty]
    ELSE LET link == Head(links_to_add)
         IN IF links_contains(ls, link)
            THEN add_links(Append(ls, link), Tail(links_to_add), TRUE)
            ELSE add_links(ls, Tail(links_to_add), dirty)

(* cli.rs lines 402-412: the loop over options.contracts_to_add; insert    *)
(* replaces the entry of a name already there, dirty is set for a new name *)
add_contracts(cs, contracts_to_add, dirty) ==
    [contracts |-> contracts_to_add @@ cs,
     dirty |-> dirty \/ \E name \in DOMAIN contracts_to_add : name \notin DOMAIN cs]

(* TOMLEdition values the commands can build: links_to_add of the link     *)
(* command (cli.rs 155-167) holds one link and its contracts_to_add is     *)
(* empty; the other commands may add a contract as well                    *)
ContractsToAdd == {EmptyMap} \cup {(name :> <<>>) : name \in Names}

(* execute_changes, Changes::EditTOML, cli.rs lines 380-422 *)
EditTOML ==
    /\ pc = "start"
    /\ \E links_to_add \in SeqsUpTo(LinkIds, MaxLinksToAdd),
          contracts_to_add \in ContractsToAdd :
         LET with_links == add_links(links, links_to_add, FALSE)
             with_contracts == add_contracts(contracts, contracts_to_add,
                                             with_links.dirty)
             dirty == with_contracts.dirty
         IN /\ Len(with_links.links) <= MaxLinks
            /\ links' = IF dirty THEN with_links.links ELSE links
            /\ contracts' = IF dirty THEN with_contracts.contracts ELSE contracts
            /\ last_edit' = [ran |-> TRUE, links_to_add |-> links_to_add,
                             links_before |-> links, dirty |-> dirty]
            /\ stdout' = <<Line("BEFORE", <<>>, NoNonce), Line("AFTER", <<>>, NoNonce),
                           Line("comment", <<>>, NoNonce)>>
    /\ Finish("ok")
    /\ UNCHANGED <<run, accounts, gvars, last_sorted, last_report, dvars>>

LinkInit ==
    /\ contracts \in {RosterOf(keys, <<>>) : keys \in SUBSET Names}
    /\ links \in SeqsUpTo(LinkIds, MaxLinks)
    /\ last_edit = NoEdit
    /\ last_report = NoReport
    /\ last_sorted = NotYet
    /\ run = 1
    /\ accounts = EmptyMap
    /\ pc = "start"
    /\ outcome = "running"
    /\ panic_msg = NoPanic
    /\ adjacency_list = <<>>
    /\ seen = {}
    /\ expr_index = 0
    /\ stack = <<>>
    /\ sorted_indexes = <<>>
    /\ tainted = {}
    /\ initial_contracts = <<>>
    /\ deployers_lookup = EmptyMap
    /\ deployers_nonces = EmptyMap
    /\ idx = 0
    /\ deployer = NoName
    /\ nonce = NoNonce
    /\ steps = <<>>
    /\ net = <<>>
    /\ stdout = <<>>

LinkNext == EditTOML \/ NewRun

LinkSpec == LinkInit /\ [][LinkNext]_vars

----------------------------------------------------------------------------
(* What the roster itself says, independently of the graph code *)

Keys == DOMAIN contracts

DependsOn(c) == IF c \in Keys THEN Range(contracts[c]) ELSE {}

RECURSIVE Closure(_)
Closure(S) ==
    LET more == S \cup UNION {DependsOn(c) : c \in S}
    IN IF more = S THEN S ELSE Closure(more)

(* every contract c depends on, directly or transitively *)
TransDeps(c) == Closure(DependsOn(c))

OnCycle(c) == c \in TransDeps(c)
AllKnown == \A c \in Keys : DependsOn(c) \subseteq Keys
Acyclic == \A c \in Keys : ~OnCycle(c)

Position(order, x) == CHOOSE i \in 1..Len(order) : order[i] = x

(* every name of the order comes after all the names it depends on *)
DepsFirst(order) ==
    \A i \in 1..Len(order) :
        \A d \in TransDeps(order[i]) :
            \E j \in 1..(i - 1) : order[j] = d

NamesOf(ids) == [i \in 1..Len(ids) |-> reverse_lookup(contracts, ids[i])]

Chain == ("a" :> <<>>) @@ ("b" :> <<"a">>) @@ ("c" :> <<"b">>)

(* the names get_cycling_dependencies returned, once it has returned Some *)
CyclingNames == {reverse_lookup(contracts, i) : i \in Range(sorted_indexes) \ tainted}

----------------------------------------------------------------------------
(* C1: for an acyclic roster, the order get_sorted_dependencies returns    *)
(* and the order ordered_contracts hands to load_session hold every        *)
(* contract once, after every contract it transitively depends on; the     *)
(* chain a, b -> a, c -> b gives exactly a, b, c.                          *)
C1_DependenciesFirst ==
    /\ (pc = "cycle" /\ Acyclic) =>
          /\ DepsFirst(NamesOf(sorted_indexes))
          /\ contracts = Chain => sorted_indexes = <<0, 1, 2>>
    /\ pc = "session" =>
          /\ DepsFirst(initial_contracts)
          /\ Range(initial_contracts) = Keys
          /\ Len(initial_contracts) = Cardinality(Keys)
          /\ contracts = Chain => initial_contracts = <<"a", "b", "c">>

C1_Witness ==
    /\ pc = "session"
    /\ Acyclic
    /\ initial_contracts = <<"c", "b", "a">>
    /\ TransDeps("a") = {"b", "c"}

(* C2: get_cycling_dependencies, on the order get_sorted_dependencies      *)
(* gave, returns None exactly when the roster is acyclic, and when it is   *)
(* not, every contract that lies on a cycle is in the returned set.        *)
C2_CycleDetected ==
    /\ pc = "session" => Acyclic
    /\ (pc = "done" /\ outcome = "exit") =>
          /\ ~Acyclic
          /\ {c \in Keys : OnCycle(c)} \subseteq CyclingNames

C2_Witness ==
    /\ pc = "done"
    /\ outcome = "exit"
    /\ contracts = ("a" :> <<"b">>) @@ ("b" :> <<"a">>)
    /\ CyclingNames = {"a", "b"}

FirstUnknown ==
    LET bad == {c \in Keys : ~(DependsOn(c) \subseteq Keys)}
        c == CHOOSE x \in bad : \A y \in bad : NameRank(x) <= NameRank(y)
        j == CHOOSE i \in 1..Len(contracts[c]) :
                /\ contracts[c][i] \notin Keys
                /\ \A k \in 1..(i - 1) : contracts[c][k] \in Keys
    IN <<c, contracts[c][j]>>

(* C3 (as claimed): an unknown dependency ends the run with an error that  *)
(* names the dependent contract and the missing name, and nothing else is  *)
(* done: no order, no cycle check, no deployment.                          *)
C3_UnknownDependencyNamed ==
    (~AllKnown /\ pc # "start") =>
        /\ pc = "done"
        /\ outcome = "panic"
        /\ panic_msg.names = FirstUnknown
        /\ sorted_indexes = <<>>
        /\ initial_contracts = <<>>
        /\ steps = <<>>
        /\ net = <<>>

(* C4: a roster with an unknown dependency, a self-reference or any cycle  *)
(* never gets to the deployment loop: no order is handed over, no step of  *)
(* the pipeline runs and no request is sent to the node.                   *)
C4_NoNetworkOnBadRoster ==
    (~AllKnown \/ ~Acyclic) =>
        /\ net = <<>>
        /\ steps = <<>>
        /\ initial_contracts = <<>>
        /\ pc \in {"start", "sort", "cycle", "done"}
        /\ pc = "done" => outcome \in {"panic", "exit"}

C4_Witness ==
    /\ pc = "done"
    /\ outcome = "exit"
    /\ \E c \in Keys : c \in DependsOn(c)
    /\ net = <<>>

Fetched(a) ==
    {i \in 1..Len(net) : net[i].op = "GET /v2/accounts" /\ net[i].who = a /\ net[i].status = "2xx"}

Accepted(a) ==
    {i \in 1..Len(net) : net[i].op = "POST /v2/transactions" /\ net[i].who = a /\ net[i].status = "2xx"}

(* C5: for every account, the cached nonce is the nonce the node reported  *)
(* plus the number of successful broadcasts the account has signed since,  *)
(* and the k-th of these broadcasts carried the reported nonce plus k - 1. *)
C5_NonceSequence ==
    \A a \in DOMAIN accounts \cup DOMAIN deployers_nonces :
        /\ a \in DOMAIN deployers_nonces <=> Fetched(a) # {}
        /\ \A g \in Fetched(a) :
              /\ deployers_nonces[a] = net[g].nonce + Cardinality(Accepted(a))
              /\ \A i \in Accepted(a) :
                    net[i].nonce = net[g].nonce + Cardinality({j \in Accepted(a) : j < i})

C5_Witness ==
    /\ \E g \in Fetched("deployer") : net[g].nonce = 5
    /\ \E i, j \in Accepted("deployer") : net[i].nonce = 5 /\ net[j].nonce = 6
    /\ deployers_nonces["deployer"] = 7

(* C6: the signer of a contract is the entry the signer table holds for    *)
(* the contract, else the account named "deployer"; without such an        *)
(* account, the run fails at the first contract, before anything is sent.  *)
C6_Signer ==
    /\ pc \in {"derive", "nonce", "submit"} =>
          /\ contract_name \in DOMAIN deployers_lookup =>
                deployer = deployers_lookup[contract_name]
          /\ contract_name \notin DOMAIN deployers_lookup =>
                deployer = "deployer" /\ "deployer" \in DOMAIN accounts
    /\ \A i \in 1..Len(net) : net[i].who = "deployer"
    /\ ("deployer" \notin DOMAIN accounts /\ steps # <<>>) =>
          /\ pc = "done"
          /\ outcome = "panic"
          /\ panic_msg.at = "cli.rs:266"
          /\ steps = <<Step("signer", initial_contracts[1])>>
          /\ net = <<>>

C6_Witness ==
    /\ pc = "done"
    /\ panic_msg.at = "cli.rs:266"
    /\ "deployer" \notin DOMAIN accounts
    /\ Len(initial_contracts) = 2
    /\ net = <<>>

Deployed ==
    LET lines == SelectSeq(stdout, LAMBDA l : l.kind = "Deploying")
    IN [i \in 1..Len(lines) |-> lines[i].names[1]]

(* C7: a broadcast that is rejected or fails is the last request of the    *)
(* run: the run has ended there, the lines of the contracts deployed       *)
(* before it are in the output, the failed contract was broadcast once,    *)
(* and no step was taken for any later contract.                           *)
C7_HaltOnFailure ==
    \A j \in 1..Len(net) :
        (net[j].op = "POST /v2/transactions" /\ net[j].status # "2xx") =>
            /\ j = Len(net)
            /\ pc = "done"
            /\ outcome = "panic"
            /\ idx \in 1..Len(initial_contracts)
            /\ net[j].contract = initial_contracts[idx]
            /\ Deployed = SubSeq(initial_contracts, 1, idx - 1)
            /\ \A k \in 1..Len(steps) :
                  Position(initial_contracts, steps[k].contract) <= idx
            /\ Cardinality({k \in 1..Len(net) :
                              /\ net[k].op = "POST /v2/transactions"
                              /\ net[k].contract = initial_contracts[idx]}) = 1

C7_Witness ==
    /\ Len(initial_contracts) = 3
    /\ idx = 2
    /\ net # <<>>
    /\ net[Len(net)].status = "non2xx"
    /\ Deployed = <<initial_contracts[1]>>
    /\ pc = "done"

EveryNodeOnce ==
    /\ Len(sorted_indexes) = nodes_count(adjacency_list)
    /\ Range(sorted_indexes) = 0..(nodes_count(adjacency_list) - 1)

(* C9: whatever the graph (cycles, self-loops, repeated edges), the        *)
(* depth-first pass comes to its end, and its output then holds every      *)
(* node id exactly once.                                                   *)
C9_SortTerminates == (pc = "sort") ~> (pc = "cycle" /\ EveryNodeOnce)

C9_Witness ==
    /\ pc = "cycle"
    /\ EveryNodeOnce
    /\ \E c \in Keys : c \in DependsOn(c)
    /\ \E c \in Keys : Len(contracts[c]) > Cardinality(DependsOn(c))
    /\ Cardinality(Keys) = 2

CyclicOrDownstream ==
    {c \in Keys : OnCycle(c) \/ \E d \in TransDeps(c) : OnCycle(d)}

(* C10: when there is a cycle, the returned set holds exactly the          *)
(* contracts that lie on a cycle or depend, directly or transitively, on   *)
(* one that does; these are also the names the report prints.              *)
C10_ExactCyclingSet ==
    (pc = "done" /\ outcome = "exit") =>
        /\ CyclingNames = CyclicOrDownstream
        /\ Range(stdout[Len(stdout)].names) = CyclicOrDownstream

C10_Witness ==
    /\ pc = "done"
    /\ outcome = "exit"
    /\ contracts = ("a" :> <<"b", "c">>) @@ ("b" :> <<"b">>) @@ ("c" :> <<>>)
    /\ CyclingNames = {"a", "b"}

(* the taint rule of the specification: every dependency edge of the node  *)
(* points to a leaf or to a tainted node                                   *)
RuleTaints(node, t) ==
    \A j \in 1..Len(adjacency_list[node + 1]) :
        LET d == adjacency_list[node + 1][j]
        IN Len(adjacency_list[d + 1]) = 0 \/ d \in t

(* get_cycling_dependencies has just returned, to either branch of the    *)
(* match of ordered_contracts                                             *)
Returned == pc = "session" \/ (pc = "done" /\ outcome = "exit")

(* C11: the taint set get_cycling_dependencies ends with is a fixed point  *)
(* of the taint rule: on the order get_sorted_dependencies gave, the rule  *)
(* applied once more to every node taints no node that is not tainted.     *)
C11_TaintFixedPoint ==
    Returned =>
        /\ tainted \subseteq 0..(Len(adjacency_list) - 1)
        /\ \A node \in 0..(Len(adjacency_list) - 1) :
              RuleTaints(node, tainted) => node \in tainted

C11_Witness ==
    /\ Returned
    /\ outcome = "exit"
    /\ Cardinality(tainted) = 2
    /\ Len(adjacency_list) = 3
    /\ \E node \in 0..2 : node \notin tainted /\ Len(adjacency_list[node + 1]) = 2

(* C12: when a cycle is detected the implicated names are reported in a    *)
(* deterministic order: a run on the roster of an earlier run prints the   *)
(* same names in the same sequence as that run did.                        *)
C12_ReportDeterministic ==
    (pc = "done" /\ outcome = "exit" /\ last_report # NoReport) =>
        stdout[Len(stdout)].names = last_report

Signers == {deployers_lookup[k] : k \in DOMAIN deployers_lookup}

(* C13: the nonce cache is filled lazily: in one run an account's nonce is *)
(* queried from the node at most once, at the first contract that account  *)
(* signs and before any of its broadcasts; an account that signs no        *)
(* contract is never queried; later contracts of the account take the      *)
(* nonce from the cache without a request (every query is made for the     *)
(* first contract of the order, which the one signing account signs).      *)
C13_LazyNonceCache ==
  net # <<>> =>
    /\ \A i \in 1..Len(net) :
         /\ net[i].who \in DOMAIN accounts
         /\ net[i].who \in Signers
         /\ net[i].op = "GET /v2/accounts" =>
               /\ \A j \in 1..Len(net) :
                     (j # i /\ net[j].op = "GET /v2/accounts") =>
                         net[j].who # net[i].who
               /\ \A j \in 1..(i - 1) : net[j].who # net[i].who
               /\ net[i].contract = initial_contracts[1]

C13_Witness ==
    /\ Len(initial_contracts) = 3
    /\ Len(net) = 4
    /\ net[1].op = "GET /v2/accounts"
    /\ \A i \in 2..4 : net[i].op = "POST /v2/transactions" /\ net[i].status = "2xx"
    /\ "wallet_1" \in DOMAIN accounts
    /\ net[1].who = "deployer"

Broadcasts == {i \in 1..Len(net) : net[i].op = "POST /v2/transactions"}

(* number of broadcasts among the first i requests *)
BroadcastsUpTo(i) == Cardinality({j \in 1..i : net[j].op = "POST /v2/transactions"})

(* C14: contracts are deployed one at a time in the deployment order: when *)
(* a contract is broadcast, every contract it depends on was broadcast     *)
(* with success earlier in the same run; the k-th broadcast is that of the *)
(* k-th contract of the order and starts only after every earlier          *)
(* broadcast has returned a success; no contract is broadcast twice.       *)
C14_OneAtATimeInOrder ==
  net # <<>> =>
    /\ \A i \in 1..Len(net) :
       net[i].op = "POST /v2/transactions" =>
         /\ net[i].contract = initial_contracts[BroadcastsUpTo(i)]
         /\ \A d \in TransDeps(net[i].contract) :
               \E j \in 1..(i - 1) :
                   /\ net[j].op = "POST /v2/transactions"
                   /\ net[j].contract = d
                   /\ net[j].status = "2xx"
         /\ \A j \in 1..(i - 1) :
               net[j].op = "POST /v2/transactions" =>
                   net[j].status = "2xx" /\ net[j].contract # net[i].contract
    /\ pc \in {"signer", "derive", "nonce", "submit"} =>
         /\ BroadcastsUpTo(Len(net)) = idx - 1
         /\ \A j \in 1..Len(net) : net[j].status = "2xx"

C14_Witness ==
    /\ pc = "done"
    /\ outcome = "ok"
    /\ initial_contracts = <<"b", "c", "a">>
    /\ contracts["a"] = <<"c", "b">>
    /\ Cardinality(Broadcasts) = 3
    /\ \A j \in Broadcasts : net[j].status = "2xx"

(* the steps of one contract, in the order of the loop body *)
StepOrder == <<"signer", "derive", "nonce", "submit">>

(* C15, as the specification states it: the nonce of a contract is always  *)
(* resolved before its key is derived.                                     *)
C15_NonceBeforeDerivation ==
  steps # <<>> =>
    \A i \in 1..Len(steps) :
        steps[i].what = "derive" =>
            \E j \in 1..(i - 1) :
                steps[j].what = "nonce" /\ steps[j].contract = steps[i].contract

(* C15, amended: for each contract the steps are taken in the order        *)
(* resolve signer, derive the key, resolve the nonce (with the query on    *)
(* the account's first use), build, sign and submit; the key derivation    *)
(* precedes the nonce resolution, and when the key derivation fails the    *)
(* nonce of that contract has not been resolved and nothing was requested  *)
(* from the node for it.                                                   *)
C15_DerivationBeforeNonce ==
  steps # <<>> =>
    /\ \A i \in 1..Len(steps) :
          /\ steps[i].what = StepOrder[((i - 1) % 4) + 1]
          /\ steps[i].contract = initial_contracts[((i - 1) \div 4) + 1]
    /\ \A i \in 1..Len(net) :
          \E j \in 1..Len(steps) :
              steps[j] = Step("derive", net[i].contract)
    /\ (pc = "done" /\ outcome = "panic" /\ panic_msg.at = "cli.rs:271") =>
          LET failed == steps[Len(steps)]
          IN /\ failed.what = "derive"
             /\ \A i \in 1..Len(steps) :
                   steps[i].what = "nonce" => steps[i].contract # failed.contract
             /\ \A i \in 1..Len(net) : net[i].contract # failed.contract

C15_Witness ==
    /\ pc = "done"
    /\ outcome = "ok"
    /\ initial_contracts = <<"a", "b">>
    /\ [i \in 1..Len(steps) |-> steps[i].what] = StepOrder \o StepOrder
    /\ [i \in 1..Len(steps) |-> steps[i].contract] =
           <<"a", "a", "a", "a", "b", "b", "b", "b">>
    /\ Len(net) = 3

Count(ls, link) == Cardinality({i \in 1..Len(ls) : ls[i] = link})

(* C16: an EditTOML change adds links: after it has run, every link of     *)
(* links_to_add that the file's links did not hold is in the file's links  *)
(* and the file was rewritten, and a link the file's links already held    *)
(* occurs in them no more often than before.                               *)
C16_LinksAdded ==
    last_edit.ran =>
        \A link \in Range(last_edit.links_to_add) :
            IF links_contains(last_edit.links_before, link)
            THEN Count(links, link) = Count(last_edit.links_before, link)
            ELSE links_contains(links, link) /\ last_edit.dirty

====
